---- MODULE Spec2Model ----
(***************************************************************************)
(* Model of the LiveKit cloud-agents GitHub plugin: main.go (dispatch,     *)
(* secret collection, createAgent / deployAgent / agentStatus) and         *)
(* config.go: the descriptor (SaveTOMLFile / LoadTOMLFile) and the         *)
(* settings file (LoadOrCreate / RemoveProject / PersistIfNeeded).         *)
(*                                                                         *)
(* A string is a sequence of tokens.  The code only ever tests a prefix,   *)
(* splits on "=", "," or "." and compares whole names, so a token is       *)
(* either one of those separators or an indivisible run of other           *)
(* characters.  The empty string is <<>>.                                  *)
(*                                                                         *)
(* A Go pointer or slice that may be nil is a sequence of length 0 (nil)   *)
(* or 1 (the value).                                                       *)
(***************************************************************************)
EXTENDS Integers, Sequences, FiniteSets, TLC

VARIABLES
    pc,           \* position of the process: idle, main, a step of a handler, done
    environ,      \* os.Environ(): the entries NAME=VALUE of this invocation
    operation,    \* main's local `operation`
    secrets,      \* main's local `secrets`
    lkUrl, lkApiKey, lkApiSecret,   \* the package-level connection variables
    client,       \* TRUE once lksdk.NewAgentClient has returned a client
    subdomain,    \* main's local `subdomain`
    toml,         \* <workingDir>/livekit.toml on disk: <<>> or <<lines>>
    toml0,        \* history: the descriptor file when the invocation started
    lkConfig,     \* the handler's local *LiveKitTOML: <<>> (nil) or <<value>>
    loaded,       \* what the last LoadTOMLFile returned: config, exists, err
    resp,         \* the response of CreateAgent / DeployAgent
    res,          \* the response of ListAgents
    trace,        \* history: the remote calls and file writes of this invocation
    exitCode,     \* -1 while running, then the exit status of the process
    exitMsg,      \* the message logged with the exit
    notifyCalls,  \* calls of sendSlackNotification in this invocation
    slackPosts,   \* calls of api.PostMessage in this invocation
    home,         \* whether os.UserHomeDir() succeeds ($HOME is set)
    settings,     \* ~/.livekit/cli-config.yaml on disk: <<>> or <<[content, mode]>>
    settings0,    \* history: the settings file before the first call
    conf,         \* the *CLIConfig in hand: <<>> (nil) or <<value>>
    ret,          \* the last call on the settings and what it returned
    added,        \* history: a project was added to a CLIConfig in memory
    built,        \* history: the agent ids a create has uploaded and had built
    procs         \* concurrent create invocations on one working directory, each
                  \* with its position, lkConfig, resp and exit status

vars == <<pc, environ, operation, secrets, lkUrl, lkApiKey, lkApiSecret, client,
          subdomain, toml, toml0, lkConfig, loaded, resp, res, trace, exitCode, exitMsg,
          notifyCalls, slackPosts, home, settings, settings0, conf, ret, added, built,
          procs>>

\* the state of config.go's settings part, which main.go never touches
settingsVars == <<home, settings, settings0, conf, ret, added>>

NoRet == [op |-> "", err |-> "", wrote |-> FALSE, warned |-> FALSE, project |-> <<>>]

NoSettings ==
    /\ home = TRUE
    /\ settings = <<>>
    /\ settings0 = <<>>
    /\ conf = <<>>
    /\ ret = NoRet
    /\ added = FALSE

----------------------------------------------------------------------------
(* package strings *)

\* strings.Index for a one-token separator: 0 when sep does not occur
RECURSIVE IndexFrom(_, _, _)
IndexFrom(s, sep, i) ==
    IF i > Len(s) THEN 0
    ELSE IF s[i] = sep THEN i
    ELSE IndexFrom(s, sep, i + 1)

Index(s, sep) == IndexFrom(s, sep, 1)

HasPrefix(s, p) == Len(s) >= Len(p) /\ SubSeq(s, 1, Len(p)) = p

TrimPrefix(s, p) == IF HasPrefix(s, p) THEN SubSeq(s, Len(p) + 1, Len(s)) ELSE s

\* strings.Split(s, sep): every piece, an empty string giving one empty piece
RECURSIVE Split(_, _)
Split(s, sep) ==
    LET i == Index(s, sep) IN
    IF i = 0 THEN <<s>>
    ELSE <<SubSeq(s, 1, i - 1)>> \o Split(SubSeq(s, i + 1, Len(s)), sep)

\* a cut at every sep, as strings.Split makes it
SplitEvery(s, sep) == Split(s, sep)

\* strings.SplitN(s, sep, 2): cut at the first sep only
SplitN2(s, sep) ==
    LET i == Index(s, sep) IN
    IF i = 0 THEN <<s>>
    ELSE <<SubSeq(s, 1, i - 1), SubSeq(s, i + 1, Len(s))>>

----------------------------------------------------------------------------
(* the process environment *)

Entry(name, value) == name \o <<"=">> \o value

\* os.Getenv: the value of the first entry whose name is `name`, "" when unset
RECURSIVE GetenvFrom(_, _, _)
GetenvFrom(env, name, i) ==
    IF i > Len(env) THEN <<>>
    ELSE IF SplitN2(env[i], "=")[1] = name THEN SubSeq(env[i], Len(name) + 2, Len(env[i]))
    ELSE GetenvFrom(env, name, i + 1)

Getenv(env, name) == GetenvFrom(env, name, 1)

----------------------------------------------------------------------------
(* main: the secret collector (main.go 55-116) *)

AgentSecret(name, value) == [Name |-> name, Value |-> value]

ConnNames == {<<"LIVEKIT_URL">>, <<"LIVEKIT_API_KEY">>, <<"LIVEKIT_API_SECRET">>}

\* the loop over os.Environ() (main.go 57-84); acc holds secrets and the three
\* connection variables.  Every entry of os.Environ() holds an "=", so
\* secretParts[1] exists.
RECURSIVE PrefixLoop(_, _, _)
PrefixLoop(env, i, acc) ==
    IF i > Len(env) THEN acc
    ELSE IF ~HasPrefix(env[i], <<"SECRET_">>) THEN PrefixLoop(env, i + 1, acc)
    ELSE IF env[i] = <<"SECRET_", "LIST">> THEN PrefixLoop(env, i + 1, acc)
    ELSE
        LET secretParts == SplitN2(TrimPrefix(env[i], <<"SECRET_">>), "=")
            secretName  == secretParts[1]
            secretValue == secretParts[2]
        IN  PrefixLoop(env, i + 1,
                [secrets     |-> Append(acc.secrets, AgentSecret(secretName, secretValue)),
                 lkUrl       |-> IF secretName = <<"LIVEKIT_URL">> THEN secretValue ELSE acc.lkUrl,
                 lkApiKey    |-> IF secretName = <<"LIVEKIT_API_KEY">> THEN secretValue ELSE acc.lkApiKey,
                 lkApiSecret |-> IF secretName = <<"LIVEKIT_API_SECRET">> THEN secretValue
                                 ELSE acc.lkApiSecret])

PrefixSecrets(env) ==
    PrefixLoop(env, 1, [secrets |-> <<>>, lkUrl |-> <<>>, lkApiKey |-> <<>>, lkApiSecret |-> <<>>])

ConnMissing(url, key, sec) == url = <<>> \/ key = <<>> \/ sec = <<>>

\* connection parameters taken as they are, the check of lines 92-95 left out
ConnectionUnchecked(env) ==
    LET a == PrefixSecrets(env) IN
    IF ~ConnMissing(a.lkUrl, a.lkApiKey, a.lkApiSecret)
    THEN [ok |-> TRUE, lkUrl |-> a.lkUrl, lkApiKey |-> a.lkApiKey, lkApiSecret |-> a.lkApiSecret]
    ELSE [ok |-> TRUE,
          lkUrl |-> Getenv(env, <<"LIVEKIT_URL">>),
          lkApiKey |-> Getenv(env, <<"LIVEKIT_API_KEY">>),
          lkApiSecret |-> Getenv(env, <<"LIVEKIT_API_SECRET">>)]

\* the connection parameters after main.go 86-96: ok = FALSE is the os.Exit(1)
Connection(env) ==
    LET a == PrefixSecrets(env) IN
    IF ~ConnMissing(a.lkUrl, a.lkApiKey, a.lkApiSecret)
    THEN [ok |-> TRUE, lkUrl |-> a.lkUrl, lkApiKey |-> a.lkApiKey, lkApiSecret |-> a.lkApiSecret]
    ELSE LET u == Getenv(env, <<"LIVEKIT_URL">>)
             k == Getenv(env, <<"LIVEKIT_API_KEY">>)
             s == Getenv(env, <<"LIVEKIT_API_SECRET">>)
         IN  [ok |-> ~ConnMissing(u, k, s), lkUrl |-> u, lkApiKey |-> k, lkApiSecret |-> s]

\* a loop that skips an entry without "=" instead of failing
RECURSIVE ListLoopSkip(_, _, _)
ListLoopSkip(secretList, i, acc) ==
    IF i > Len(secretList) THEN [ok |-> TRUE, secrets |-> acc]
    ELSE LET secretParts == SplitN2(secretList[i], "=") IN
         IF Len(secretParts) # 2 THEN ListLoopSkip(secretList, i + 1, acc)
         ELSE ListLoopSkip(secretList, i + 1,
                           Append(acc, AgentSecret(secretParts[1], secretParts[2])))

\* the loop over SECRET_LIST (main.go 99-116): ok = FALSE is the os.Exit(1) taken
\* at the first entry that SplitN does not cut in two
RECURSIVE ListLoop(_, _, _)
ListLoop(secretList, i, acc) ==
    IF i > Len(secretList) THEN [ok |-> TRUE, secrets |-> acc]
    ELSE LET secretParts == SplitN2(secretList[i], "=") IN
         IF Len(secretParts) # 2 THEN [ok |-> FALSE, secrets |-> acc]
         ELSE ListLoop(secretList, i + 1,
                       Append(acc, AgentSecret(secretParts[1], secretParts[2])))

ListSecrets(env, acc) ==
    IF Getenv(env, <<"SECRET_", "LIST">>) = <<>> THEN [ok |-> TRUE, secrets |-> acc]
    ELSE ListLoop(Split(Getenv(env, <<"SECRET_", "LIST">>), ","), 1, acc)

\* main.go 125
Subdomain(url) == Split(url, ".")[1]

\* ExtractSubdomain (config.go 67-74): `^(?:https?|wss?)://([^.]+)\.`, the scheme
\* with its "://" being one token here; "" when the pattern does not match
Schemes == {"http://", "https://", "ws://", "wss://"}

ExtractSubdomain(url) ==
    IF url = <<>> THEN <<>>
    ELSE IF url[1] \notin Schemes THEN <<>>
    ELSE IF Index(Tail(url), ".") <= 1 THEN <<>>
    ELSE SubSeq(Tail(url), 1, Index(Tail(url), ".") - 1)

Operations == {<<"create">>, <<"deploy">>, <<"status">>}

----------------------------------------------------------------------------
(* config.go: the descriptor and its TOML form.  A file is a sequence of   *)
(* lines: a table header, a key with a string, a key with a list of        *)
(* strings, or text that is no TOML.  Values have the type of the field    *)
(* they are decoded into.                                                  *)

TableLine(name)    == [kind |-> "table", key |-> name, sval |-> <<>>, lval |-> <<>>]
StrLine(key, v)    == [kind |-> "str",   key |-> key,  sval |-> v,    lval |-> <<>>]
ListLine(key, l)   == [kind |-> "list",  key |-> key,  sval |-> <<>>, lval |-> l]
JunkLine           == [kind |-> "junk",  key |-> "",   sval |-> <<>>, lval |-> <<>>]

\* type LiveKitTOML (config.go 230-242); a nil pointer or slice is <<>>
LiveKitTOMLProjectConfig(sub) == [Subdomain |-> sub]
LiveKitTOMLAgentConfig(id, regions) == [ID |-> id, Regions |-> regions]
LiveKitTOML(project, agent) == [Project |-> project, Agent |-> agent]

\* config.go 244-250
NewLiveKitTOML(forSubdomain) == LiveKitTOML(<<LiveKitTOMLProjectConfig(forSubdomain)>>, <<>>)

\* config.go 252-255
WithDefaultAgent(c) == [c EXCEPT !.Agent = <<LiveKitTOMLAgentConfig(<<>>, <<>>)>>]

\* toml.NewEncoder(f).Encode(c): a nil pointer or nil slice field is left out
Encode(c) ==
    (IF c.Project = <<>> THEN <<>>
     ELSE <<TableLine("project"), StrLine("subdomain", c.Project[1].Subdomain)>>)
    \o
    (IF c.Agent = <<>> THEN <<>>
     ELSE <<TableLine("agent"), StrLine("id", c.Agent[1].ID)>>
          \o (IF c.Agent[1].Regions = <<>> THEN <<>>
              ELSE <<ListLine("regions", c.Agent[1].Regions[1])>>))

\* the table a line belongs to: the last header before it, "" at top level
RECURSIVE TableAt(_, _)
TableAt(lines, i) ==
    IF i <= 1 THEN ""
    ELSE IF lines[i - 1].kind = "table" THEN lines[i - 1].key
    ELSE TableAt(lines, i - 1)

KeyLines(lines, table, key) ==
    {i \in 1..Len(lines) : /\ lines[i].kind \in {"str", "list"}
                           /\ lines[i].key = key
                           /\ TableAt(lines, i) = table}

HasTable(lines, table) == \E i \in 1..Len(lines) : lines[i].kind = "table" /\ lines[i].key = table

\* the parser's verdict: text that is no TOML, a table or a key defined twice
ParseError(lines) ==
    \/ \E i \in 1..Len(lines) : lines[i].kind = "junk"
    \/ \E i, j \in 1..Len(lines) :
          /\ i < j
          /\ lines[i].kind = lines[j].kind
          /\ lines[i].key = lines[j].key
          /\ lines[i].kind = "table" \/ TableAt(lines, i) = TableAt(lines, j)

StrOf(lines, table, key) ==
    IF KeyLines(lines, table, key) = {} THEN <<>>
    ELSE lines[CHOOSE i \in KeyLines(lines, table, key) : TRUE].sval

\* a slice field: nil when the key is absent, else the list (an empty one too)
ListOf(lines, table, key) ==
    IF KeyLines(lines, table, key) = {} THEN <<>>
    ELSE <<lines[CHOOSE i \in KeyLines(lines, table, key) : TRUE].lval>>

\* toml.DecodeFile(tomlFile, &config) with config a nil *LiveKitTOML.  Without a
\* parse error a LiveKitTOML is allocated and the keys it knows are filled in, the
\* others ignored.  On a parse error the library either has already allocated the
\* (empty) LiveKitTOML or has left the pointer nil, by its version: allocFirst.
DecodeLiveKitTOML(lines, allocFirst) ==
    IF ParseError(lines)
    THEN [err |-> "toml: parse error",
          config |-> IF allocFirst THEN <<LiveKitTOML(<<>>, <<>>)>> ELSE <<>>]
    ELSE [err |-> "",
          config |-> <<LiveKitTOML(
              IF HasTable(lines, "project")
              THEN <<LiveKitTOMLProjectConfig(StrOf(lines, "project", "subdomain"))>>
              ELSE <<>>,
              IF HasTable(lines, "agent")
              THEN <<LiveKitTOMLAgentConfig(StrOf(lines, "agent", "id"),
                                            ListOf(lines, "agent", "regions"))>>
              ELSE <<>>)>>]

\* toml.DecodeFile(tomlFile, &oldConfig) with oldConfig an AgentTOML (config.go 225-228)
DecodeAgentTOML(lines) ==
    IF ParseError(lines) THEN [err |-> "toml: parse error", ProjectSubdomain |-> <<>>, Regions |-> <<>>]
    ELSE [err |-> "",
          ProjectSubdomain |-> StrOf(lines, "", "project_subdomain"),
          Regions |-> ListOf(lines, "", "regions")]

Return(config, exists, err, panic) ==
    [config |-> config, exists |-> exists, err |-> err, panic |-> panic]

\* a load that never takes the legacy branch
LoadTOMLFileNoMigration(file, allocFirst) ==
    IF file = <<>>
    THEN Return(<<>>, FALSE, "stat: no such file or directory", FALSE)
    ELSE LET d == DecodeLiveKitTOML(file[1], allocFirst) IN
         IF d.config = <<>> THEN Return(<<>>, TRUE, d.err, TRUE)
         ELSE Return(d.config, TRUE, d.err, FALSE)

\* a load that takes the legacy branch whatever the file holds
LoadTOMLFileAlwaysMigrates(file, allocFirst) ==
    IF file = <<>>
    THEN Return(<<>>, FALSE, "stat: no such file or directory", FALSE)
    ELSE LET d == DecodeLiveKitTOML(file[1], allocFirst) IN
         IF d.config = <<>> THEN Return(<<>>, TRUE, d.err, TRUE)
         ELSE LET oldConfig == DecodeAgentTOML(file[1]) IN
              IF oldConfig.err # "" THEN Return(<<>>, TRUE, oldConfig.err, FALSE)
              ELSE Return(<<LiveKitTOML(
                              <<LiveKitTOMLProjectConfig(oldConfig.ProjectSubdomain)>>,
                              <<LiveKitTOMLAgentConfig(<<>>, <<>>)>>)>>,
                          TRUE, "", FALSE)

\* a load that reads a missing file as an empty one
LoadTOMLFileIgnoresStat(file, allocFirst) ==
    IF file = <<>>
    THEN Return(<<LiveKitTOML(<<LiveKitTOMLProjectConfig(<<>>)>>,
                              <<LiveKitTOMLAgentConfig(<<>>, <<>>)>>)>>, TRUE, "", FALSE)
    ELSE LET d == DecodeLiveKitTOML(file[1], allocFirst) IN
         IF d.config = <<>> THEN Return(<<>>, TRUE, d.err, TRUE)
         ELSE IF d.config[1].Project = <<>>
         THEN LET oldConfig == DecodeAgentTOML(file[1]) IN
              IF oldConfig.err # "" THEN Return(<<>>, TRUE, oldConfig.err, FALSE)
              ELSE Return(<<LiveKitTOML(
                              <<LiveKitTOMLProjectConfig(oldConfig.ProjectSubdomain)>>,
                              <<LiveKitTOMLAgentConfig(<<>>, <<>>)>>)>>,
                          TRUE, "", FALSE)
         ELSE Return(d.config, TRUE, d.err, FALSE)

\* LoadTOMLFile (config.go 275-304) on the file `file` (<<>>: no such file).
\* panic = TRUE is the nil dereference of config.Project at line 287.
LoadTOMLFile(file, allocFirst) ==
    IF file = <<>>
    THEN Return(<<>>, FALSE, "stat: no such file or directory", FALSE)
    ELSE LET d == DecodeLiveKitTOML(file[1], allocFirst) IN
         IF d.config = <<>> THEN Return(<<>>, TRUE, d.err, TRUE)
         ELSE IF d.config[1].Project = <<>>
         THEN LET oldConfig == DecodeAgentTOML(file[1]) IN
              IF oldConfig.err # "" THEN Return(<<>>, TRUE, oldConfig.err, FALSE)
              ELSE Return(<<LiveKitTOML(
                              <<LiveKitTOMLProjectConfig(oldConfig.ProjectSubdomain)>>,
                              <<LiveKitTOMLAgentConfig(<<>>, <<>>)>>)>>,
                          TRUE, "", FALSE)
         ELSE Return(d.config, TRUE, d.err, FALSE)

NoReturn == Return(<<>>, FALSE, "", FALSE)

\* the agent ids a descriptor file records: that of its [agent] table, if any
Recorded(file) ==
    IF file = <<>> THEN {}
    ELSE IF ParseError(file[1]) \/ StrOf(file[1], "agent", "id") = <<>> THEN {}
    ELSE {StrOf(file[1], "agent", "id")}

----------------------------------------------------------------------------
(* the inputs of one invocation *)

\* INPUT_OPERATION: unset (or empty), the documented values, one that is none of them
OperationValues ==
    {<<>>, <<"create">>, <<"deploy">>, <<"status">>, <<"status-retry">>, <<"restart">>}

ConnOrder == <<(<<"LIVEKIT_URL">>), (<<"LIVEKIT_API_KEY">>), (<<"LIVEKIT_API_SECRET">>)>>

\* the value a connection parameter has as SECRET_<name> and as plain <name>
PrefixedValue(name) ==
    IF name = <<"LIVEKIT_URL">> THEN <<"wss://", "blue", ".", "livekit", ".", "cloud">>
    ELSE IF name = <<"LIVEKIT_API_KEY">> THEN <<"keyS">> ELSE <<"secretS">>

PlainValue(name) ==
    IF name = <<"LIVEKIT_URL">> THEN <<"https://", "red", ".", "livekit", ".", "cloud">>
    ELSE IF name = <<"LIVEKIT_API_KEY">> THEN <<"keyP">> ELSE <<"secretP">>

PrefixedChoices == {{}, {<<"LIVEKIT_URL">>}, ConnNames}
PlainChoices    == {{}, {<<"LIVEKIT_API_KEY">>, <<"LIVEKIT_API_SECRET">>}, ConnNames}

\* other SECRET_ variables: none, or one plain value and one value holding "="
ExtraChoices ==
    {<<>>,
     <<Entry(<<"SECRET_", "OPENAI_API_KEY">>, <<"sk">>),
       Entry(<<"SECRET_", "AUTH_TOKEN">>, <<"a", "=", "b">>)>>}

\* SECRET_LIST: unset (<<>>) or set (<<value>>) to the empty string, to entries
\* NAME=VALUE (a value may hold "="), or to a list with an entry without "=" at
\* either end
SecretListChoices ==
    {<<>>,
     << <<>> >>,
     << <<"A", "=", "1", "=", "2">> >>,
     << <<"B">> >>,
     << <<"A", "=", "1", "=", "2", ",", "B">> >>,
     << <<"B", ",", "A", "=", "1", "=", "2">> >>}

SlackChoices == {{}, {<<"SLACK_TOKEN">>}, {<<"SLACK_TOKEN">>, <<"SLACK_CHANNEL">>}}

RECURSIVE EntriesOf(_, _, _, _)
EntriesOf(order, chosen, prefix, i) ==
    IF i > Len(order) THEN <<>>
    ELSE (IF order[i] \in chosen
          THEN <<Entry(prefix \o order[i],
                       IF prefix = <<>> THEN PlainValue(order[i]) ELSE PrefixedValue(order[i]))>>
          ELSE <<>>)
         \o EntriesOf(order, chosen, prefix, i + 1)

Environ(op, extra, pre, plain, list, slack) ==
    (IF op = <<>> THEN <<>> ELSE <<Entry(<<"INPUT_OPERATION">>, op)>>)
    \o extra
    \o EntriesOf(ConnOrder, pre, <<"SECRET_">>, 1)
    \o EntriesOf(ConnOrder, plain, <<>>, 1)
    \o (IF list = <<>> THEN <<>> ELSE <<Entry(<<"SECRET_", "LIST">>, list[1])>>)
    \o (IF <<"SLACK_TOKEN">> \in slack THEN <<Entry(<<"SLACK_TOKEN">>, <<"xoxb">>)>> ELSE <<>>)
    \o (IF <<"SLACK_CHANNEL">> \in slack THEN <<Entry(<<"SLACK_CHANNEL">>, <<"#monitoring">>)>> ELSE <<>>)

Environments ==
    {Environ(op, extra, pre, plain, list, slack) :
        op \in OperationValues, extra \in ExtraChoices, pre \in PrefixedChoices,
        plain \in PlainChoices, list \in SecretListChoices, slack \in SlackChoices}

\* what the control plane can answer
AgentIds      == {<<"CA_1">>, <<"CA_2">>}
PresignedUrls == {<<"https://", "upload", ".", "example", "/", "1">>,
                  <<"https://", "upload", ".", "example", "/", "2">>}
Statuses      == {"Running", "Pending"}

\* agents in one ListAgents answer, and regional deployments in it over all agents
MaxAgents == 2
MaxDeployments == 2

SeqsUpTo(S, n) == UNION {[1..k -> S] : k \in 0..n}

RECURSIVE TotalLen(_)
TotalLen(ss) == IF ss = <<>> THEN 0 ELSE Len(Head(ss)) + TotalLen(Tail(ss))

\* ListAgentsResponse.Agents: each agent is its AgentDeployments' statuses
ListResponses ==
    {agents \in SeqsUpTo(SeqsUpTo(Statuses, MaxDeployments), MaxAgents) :
        TotalLen(agents) <= MaxDeployments}

\* the descriptor files a working directory may hold before the first invocation
CurrentFile(sub, id, regions) ==
    <<TableLine("project"), StrLine("subdomain", sub), TableLine("agent"), StrLine("id", id)>>
    \o (IF regions = <<>> THEN <<>> ELSE <<ListLine("regions", regions[1])>>)

LegacyFile(sub, regions) ==
    <<StrLine("project_subdomain", sub), ListLine("regions", regions)>>

InitialFiles ==
    {<<>>,                                                                \* no file
     <<CurrentFile(<<"green">>, <<"CA_1">>, <<>>)>>,
     <<CurrentFile(<<"green">>, <<"CA_2">>, << <<(<<"us-east">>), (<<"eu-west">>)>> >>)>>,
     <<LegacyFile(<<"old">>, <<(<<"us-east">>), (<<"eu-west">>)>>)>>,
     <<LegacyFile(<<"old">>, <<>>)>>,
     << <<TableLine("project"), StrLine("subdomain", <<"green">>)>> >>,  \* no [agent]
     << <<TableLine("agent"), StrLine("id", <<"CA_1">>)>> >>,            \* no [project]
     << <<>> >>,                                                         \* empty file
     << <<TableLine("project"), JunkLine>> >>}                           \* no TOML

----------------------------------------------------------------------------
(* the process *)

RemoteCalls == {"CreateAgent", "DeployAgent", "ListAgents", "UploadTarball", "Build"}

\* one entry of the history: a remote call, a file write, the Slack post or the
\* final success log, with what the call was given and whether it succeeded
Event(call, id, url, secs, ok) ==
    [call |-> call, id |-> id, url |-> url, secrets |-> secs, ok |-> ok]

NoResp == [AgentId |-> <<>>, PresignedUrl |-> <<>>]

Init ==
    /\ pc = "idle"
    /\ toml \in InitialFiles
    /\ toml0 = toml
    /\ environ = <<>>
    /\ operation = <<>>
    /\ secrets = <<>>
    /\ lkUrl = <<>> /\ lkApiKey = <<>> /\ lkApiSecret = <<>>
    /\ client = FALSE
    /\ subdomain = <<>>
    /\ lkConfig = <<>>
    /\ loaded = NoReturn
    /\ resp = NoResp
    /\ res = <<>>
    /\ trace = <<>>
    /\ exitCode = -1
    /\ exitMsg = ""
    /\ notifyCalls = 0
    /\ slackPosts = 0
    /\ NoSettings
    /\ built = Recorded(toml)
    /\ procs = <<>>

\* the action is started in the working directory with environment env; the
\* descriptor file is what earlier invocations left
Invoke ==
    /\ pc = "idle"
    /\ \E env \in Environments : environ' = env
    /\ pc' = "main"
    /\ UNCHANGED <<operation, secrets, lkUrl, lkApiKey, lkApiSecret, client, subdomain,
                   toml, toml0, lkConfig, loaded, resp, res, trace, exitCode, exitMsg,
                   notifyCalls, slackPosts>>
    /\ UNCHANGED settingsVars
    /\ UNCHANGED <<built, procs>>

\* the process is gone: nothing of it is left but the descriptor file
Exited ==
    /\ pc = "done"
    /\ pc' = "idle"
    /\ toml0' = toml
    /\ environ' = <<>>
    /\ operation' = <<>>
    /\ secrets' = <<>>
    /\ lkUrl' = <<>> /\ lkApiKey' = <<>> /\ lkApiSecret' = <<>>
    /\ client' = FALSE
    /\ subdomain' = <<>>
    /\ lkConfig' = <<>>
    /\ loaded' = NoReturn
    /\ resp' = NoResp
    /\ res' = <<>>
    /\ trace' = <<>>
    /\ exitCode' = -1
    /\ exitMsg' = ""
    /\ notifyCalls' = 0
    /\ slackPosts' = 0
    /\ UNCHANGED toml
    /\ UNCHANGED settingsVars
    /\ UNCHANGED <<built, procs>>

\* os.Exit(code) after the log line msg; a panic ends the process with status 2
Exit(code, msg) ==
    /\ pc' = "done"
    /\ exitCode' = code
    /\ exitMsg' = msg

\* main (main.go 35-142) up to the dispatch
main ==
    /\ pc = "main"
    /\ LET op   == Getenv(environ, <<"INPUT_OPERATION">>)
           pre  == PrefixSecrets(environ)
           conn == Connection(environ)
           all  == ListSecrets(environ, pre.secrets)
       IN
       /\ operation' = op
       /\ IF op = <<>>
          THEN /\ Exit(1, "OPERATION is not set")
               /\ UNCHANGED <<secrets, lkUrl, lkApiKey, lkApiSecret, client, subdomain>>
          ELSE /\ lkUrl' = conn.lkUrl
               /\ lkApiKey' = conn.lkApiKey
               /\ lkApiSecret' = conn.lkApiSecret
               /\ IF ~conn.ok
                  THEN /\ Exit(1, "LIVEKIT_URL, LIVEKIT_API_KEY, and LIVEKIT_API_SECRET must be set")
                       /\ secrets' = pre.secrets
                       /\ UNCHANGED <<client, subdomain>>
                  ELSE /\ secrets' = all.secrets
                       /\ IF ~all.ok
                          THEN /\ Exit(1, "Invalid secret format")
                               /\ UNCHANGED <<client, subdomain>>
                          ELSE \E clientOk \in BOOLEAN :
                                 /\ client' = clientOk
                                 /\ IF ~clientOk
                                    THEN /\ Exit(1, "Failed to create agent client")
                                         /\ UNCHANGED subdomain
                                    ELSE /\ subdomain' = Subdomain(conn.lkUrl)
                                         /\ IF op \in Operations
                                            THEN /\ pc' = op[1]
                                                 /\ UNCHANGED <<exitCode, exitMsg>>
                                            ELSE Exit(1, "Invalid operation")
    /\ UNCHANGED <<environ, toml, toml0, lkConfig, loaded, resp, res, trace,
                   notifyCalls, slackPosts>>
    /\ UNCHANGED settingsVars
    /\ UNCHANGED <<built, procs>>

----------------------------------------------------------------------------
(* createAgent (main.go 246-287) *)

\* a check that never finds the descriptor
DescriptorNeverExists(file) == FALSE

\* os.Stat(workingDir/livekit.toml) returned no error
DescriptorExists(file) == file # <<>>

\* the result of SaveTOMLFile when the write stops after the first k lines
Truncated(c, k) == <<SubSeq(Encode(c), 1, k)>>

\* lines 247-252: the short-circuit on an existing descriptor
createAgent_Stat ==
    /\ pc = "create"
    /\ IF DescriptorExists(toml)
       THEN /\ Exit(0, "livekit.toml already exists")
            /\ UNCHANGED lkConfig
       ELSE /\ pc' = "create_CreateAgent"
            /\ lkConfig' = <<WithDefaultAgent(NewLiveKitTOML(subdomain))>>
            /\ UNCHANGED <<exitCode, exitMsg>>
    /\ UNCHANGED <<environ, operation, secrets, lkUrl, lkApiKey, lkApiSecret, client,
                   subdomain, toml, toml0, loaded, resp, res, trace, notifyCalls, slackPosts>>
    /\ UNCHANGED settingsVars
    /\ UNCHANGED <<built, procs>>

\* lines 254-264: client.CreateAgent, then lkConfig.Agent.ID = resp.AgentId
createAgent_CreateAgent ==
    /\ pc = "create_CreateAgent"
    /\ \/ /\ trace' = Append(trace, Event("CreateAgent", <<>>, <<>>, secrets, FALSE))
          /\ Exit(1, "Failed to create agent")
          /\ UNCHANGED <<resp, lkConfig>>
       \/ \E id \in AgentIds, url \in PresignedUrls :
          /\ trace' = Append(trace, Event("CreateAgent", <<>>, <<>>, secrets, TRUE))
          /\ resp' = [AgentId |-> id, PresignedUrl |-> url]
          /\ lkConfig' = <<[lkConfig[1] EXCEPT !.Agent =
                              <<[lkConfig[1].Agent[1] EXCEPT !.ID = id]>>]>>
          /\ pc' = "create_SaveTOMLFile"
          /\ UNCHANGED <<exitCode, exitMsg>>
    /\ UNCHANGED <<environ, operation, secrets, lkUrl, lkApiKey, lkApiSecret, client,
                   subdomain, toml, toml0, loaded, res, notifyCalls, slackPosts>>
    /\ UNCHANGED settingsVars
    /\ UNCHANGED <<built, procs>>

\* lines 265-268: lkConfig.SaveTOMLFile (config.go 261-273).  os.Create fails and the
\* file is as it was; or the file is truncated and the encoder's write fails after
\* k lines; or the whole descriptor is written.
createAgent_SaveTOMLFile ==
    /\ pc = "create_SaveTOMLFile"
    /\ \/ /\ trace' = Append(trace, Event("SaveTOMLFile", lkConfig[1].Agent[1].ID, <<>>, <<>>, FALSE))
          /\ Exit(1, "Failed to save livekit.toml")
          /\ UNCHANGED toml
       \/ \E k \in 0..(Len(Encode(lkConfig[1])) - 1) :
          /\ toml' = Truncated(lkConfig[1], k)
          /\ trace' = Append(trace, Event("SaveTOMLFile", lkConfig[1].Agent[1].ID, <<>>, <<>>, FALSE))
          /\ Exit(1, "Failed to save livekit.toml")
       \/ /\ toml' = <<Encode(lkConfig[1])>>
          /\ trace' = Append(trace, Event("SaveTOMLFile", lkConfig[1].Agent[1].ID, <<>>, <<>>, TRUE))
          /\ pc' = "create_UploadTarball"
          /\ UNCHANGED <<exitCode, exitMsg>>
    /\ UNCHANGED <<environ, operation, secrets, lkUrl, lkApiKey, lkApiSecret, client,
                   subdomain, toml0, lkConfig, loaded, resp, res, notifyCalls, slackPosts>>
    /\ UNCHANGED settingsVars
    /\ UNCHANGED <<built, procs>>

\* an upload whose error is not looked at: the build follows in any case
createAgent_UploadTarballUnchecked ==
    /\ pc = "create_UploadTarball"
    /\ \E ok \in BOOLEAN :
          trace' = Append(trace, Event("UploadTarball", <<>>, resp.PresignedUrl, <<>>, ok))
    /\ pc' = "create_Build"
    /\ UNCHANGED <<environ, operation, secrets, lkUrl, lkApiKey, lkApiSecret, client,
                   subdomain, toml, toml0, lkConfig, loaded, resp, res, notifyCalls, slackPosts,
                   exitCode, exitMsg>>
    /\ UNCHANGED settingsVars
    /\ UNCHANGED <<built, procs>>

\* lines 270-274: UploadTarball(workingDir, resp.PresignedUrl, ...)
createAgent_UploadTarball ==
    /\ pc = "create_UploadTarball"
    /\ \E ok \in BOOLEAN :
          /\ trace' = Append(trace, Event("UploadTarball", <<>>, resp.PresignedUrl, <<>>, ok))
          /\ IF ok
             THEN pc' = "create_Build" /\ UNCHANGED <<exitCode, exitMsg>>
             ELSE Exit(1, "Failed to upload tarball")
    /\ UNCHANGED <<environ, operation, secrets, lkUrl, lkApiKey, lkApiSecret, client,
                   subdomain, toml, toml0, lkConfig, loaded, resp, res, notifyCalls, slackPosts>>
    /\ UNCHANGED settingsVars
    /\ UNCHANGED <<built, procs>>

\* a build whose error is not looked at: success is reported in any case
createAgent_BuildUnchecked ==
    /\ pc = "create_Build"
    /\ \E ok \in BOOLEAN :
          /\ trace' = trace \o <<Event("Build", resp.AgentId, <<>>, <<>>, ok),
                                  Event("Agent created", resp.AgentId, <<>>, <<>>, TRUE)>>
          /\ built' = IF ok THEN built \cup {resp.AgentId} ELSE built
    /\ Exit(0, "Agent created")
    /\ UNCHANGED procs
    /\ UNCHANGED <<environ, operation, secrets, lkUrl, lkApiKey, lkApiSecret, client,
                   subdomain, toml, toml0, lkConfig, loaded, resp, res, notifyCalls, slackPosts>>
    /\ UNCHANGED settingsVars

\* lines 276-287: Build(ctx, resp.AgentId, ...), the success log, and main returns
createAgent_Build ==
    /\ pc = "create_Build"
    /\ \E ok \in BOOLEAN :
          IF ok
          THEN /\ trace' = trace \o <<Event("Build", resp.AgentId, <<>>, <<>>, TRUE),
                                      Event("Agent created", resp.AgentId, <<>>, <<>>, TRUE)>>
               /\ Exit(0, "Agent created")
          ELSE /\ trace' = Append(trace, Event("Build", resp.AgentId, <<>>, <<>>, FALSE))
               /\ Exit(1, "Failed to build agent")
    /\ UNCHANGED <<environ, operation, secrets, lkUrl, lkApiKey, lkApiSecret, client,
                   subdomain, toml, toml0, lkConfig, loaded, resp, res, notifyCalls, slackPosts>>
    /\ UNCHANGED settingsVars
    /\ built' = IF exitCode' = 0 THEN built \cup {resp.AgentId} ELSE built
    /\ UNCHANGED procs

----------------------------------------------------------------------------
(* deployAgent (main.go 204-244) and agentStatus (main.go 166-202) *)

\* the first lines of both handlers (167-176, 205-214): LoadTOMLFile, exit on an
\* error, exit when the file does not exist
LoadDescriptor(next) ==
    \E allocFirst \in BOOLEAN :
       LET r == LoadTOMLFile(toml, allocFirst) IN
       /\ loaded' = r
       /\ IF r.panic
          THEN Exit(2, "panic: nil pointer dereference") /\ UNCHANGED lkConfig
          ELSE IF r.err # ""
          THEN Exit(1, "Failed to load livekit.toml") /\ UNCHANGED lkConfig
          ELSE IF ~r.exists
          THEN Exit(1, "livekit.toml not found") /\ UNCHANGED lkConfig
          ELSE /\ lkConfig' = r.config
               /\ pc' = next
               /\ UNCHANGED <<exitCode, exitMsg>>

\* a load that saves the descriptor it has migrated
deployAgent_LoadTOMLFileRewrites ==
    /\ pc = "deploy"
    /\ LoadDescriptor("deploy_DeployAgent")
    /\ toml' = IF loaded'.config # <<>> /\ loaded'.err = "" THEN <<Encode(loaded'.config[1])>> ELSE toml
    /\ UNCHANGED <<environ, operation, secrets, lkUrl, lkApiKey, lkApiSecret, client,
                   subdomain, toml0, resp, res, trace, notifyCalls, slackPosts>>
    /\ UNCHANGED settingsVars
    /\ UNCHANGED <<built, procs>>

deployAgent_LoadTOMLFile ==
    /\ pc = "deploy"
    /\ LoadDescriptor("deploy_DeployAgent")
    /\ UNCHANGED <<environ, operation, secrets, lkUrl, lkApiKey, lkApiSecret, client,
                   subdomain, toml, toml0, resp, res, trace, notifyCalls, slackPosts>>
    /\ UNCHANGED settingsVars
    /\ UNCHANGED <<built, procs>>

\* lines 216-225: lkConfig.Agent.ID (a nil Agent panics), then client.DeployAgent
deployAgent_DeployAgent ==
    /\ pc = "deploy_DeployAgent"
    /\ IF lkConfig[1].Agent = <<>>
       THEN /\ Exit(2, "panic: nil pointer dereference")
            /\ UNCHANGED <<trace, resp>>
       ELSE \E ok \in BOOLEAN :
            /\ trace' = Append(trace, Event("DeployAgent", lkConfig[1].Agent[1].ID, <<>>, secrets, ok))
            /\ IF ok
               THEN /\ \E id \in AgentIds, url \in PresignedUrls :
                         resp' = [AgentId |-> id, PresignedUrl |-> url]
                    /\ pc' = "deploy_UploadTarball"
                    /\ UNCHANGED <<exitCode, exitMsg>>
               ELSE /\ Exit(1, "Failed to deploy agent")
                    /\ UNCHANGED resp
    /\ UNCHANGED <<environ, operation, secrets, lkUrl, lkApiKey, lkApiSecret, client,
                   subdomain, toml, toml0, lkConfig, loaded, res, notifyCalls, slackPosts>>
    /\ UNCHANGED settingsVars
    /\ UNCHANGED <<built, procs>>

\* an upload whose error is not looked at: the build follows in any case
deployAgent_UploadTarballUnchecked ==
    /\ pc = "deploy_UploadTarball"
    /\ \E ok \in BOOLEAN :
          trace' = Append(trace, Event("UploadTarball", <<>>, resp.PresignedUrl, <<>>, ok))
    /\ pc' = "deploy_Build"
    /\ UNCHANGED <<environ, operation, secrets, lkUrl, lkApiKey, lkApiSecret, client,
                   subdomain, toml, toml0, lkConfig, loaded, resp, res, notifyCalls, slackPosts,
                   exitCode, exitMsg>>
    /\ UNCHANGED settingsVars
    /\ UNCHANGED <<built, procs>>

\* lines 227-231
deployAgent_UploadTarball ==
    /\ pc = "deploy_UploadTarball"
    /\ \E ok \in BOOLEAN :
          /\ trace' = Append(trace, Event("UploadTarball", <<>>, resp.PresignedUrl, <<>>, ok))
          /\ IF ok
             THEN pc' = "deploy_Build" /\ UNCHANGED <<exitCode, exitMsg>>
             ELSE Exit(1, "Failed to upload tarball")
    /\ UNCHANGED <<environ, operation, secrets, lkUrl, lkApiKey, lkApiSecret, client,
                   subdomain, toml, toml0, lkConfig, loaded, resp, res, notifyCalls, slackPosts>>
    /\ UNCHANGED settingsVars
    /\ UNCHANGED <<built, procs>>

\* lines 233-244
deployAgent_Build ==
    /\ pc = "deploy_Build"
    /\ \E ok \in BOOLEAN :
          IF ok
          THEN /\ trace' = trace \o <<Event("Build", resp.AgentId, <<>>, <<>>, TRUE),
                                      Event("Agent deployed", resp.AgentId, <<>>, <<>>, TRUE)>>
               /\ Exit(0, "Agent deployed")
          ELSE /\ trace' = Append(trace, Event("Build", resp.AgentId, <<>>, <<>>, FALSE))
               /\ Exit(1, "Failed to build agent")
    /\ UNCHANGED <<environ, operation, secrets, lkUrl, lkApiKey, lkApiSecret, client,
                   subdomain, toml, toml0, lkConfig, loaded, resp, res, notifyCalls, slackPosts>>
    /\ UNCHANGED settingsVars
    /\ UNCHANGED <<built, procs>>

agentStatus_LoadTOMLFile ==
    /\ pc = "status"
    /\ LoadDescriptor("status_ListAgents")
    /\ UNCHANGED <<environ, operation, secrets, lkUrl, lkApiKey, lkApiSecret, client,
                   subdomain, toml, toml0, resp, res, trace, notifyCalls, slackPosts>>
    /\ UNCHANGED settingsVars
    /\ UNCHANGED <<built, procs>>

\* the loops of lines 191-199: some regional deployment of some agent is not "Running"
NotRunning(agents) ==
    \E a \in 1..Len(agents) : \E d \in 1..Len(agents[a]) : agents[a][d] # "Running"

\* a check that looks at the first regional deployment of each agent only
NotRunningFirstOnly(agents) ==
    \E a \in 1..Len(agents) : Len(agents[a]) > 0 /\ agents[a][1] # "Running"

\* a check of the token alone
SlackTokenOnly(env) == Getenv(env, <<"SLACK_TOKEN">>) # <<>>

\* sendSlackNotification (main.go 144-164): nothing is sent without both the token
\* and the channel
SlackConfigured(env) ==
    Getenv(env, <<"SLACK_TOKEN">>) # <<>> /\ Getenv(env, <<"SLACK_CHANNEL">>) # <<>>

\* lines 178-202: lkConfig.Agent.ID (a nil Agent panics), client.ListAgents, the
\* empty answer, the loops over the regional deployments with the notification, and
\* the final log line, which reads res.Agents[0].AgentDeployments[0]
agentStatus_ListAgents ==
    /\ pc = "status_ListAgents"
    /\ IF lkConfig[1].Agent = <<>>
       THEN /\ Exit(2, "panic: nil pointer dereference")
            /\ UNCHANGED <<trace, res, notifyCalls, slackPosts>>
       ELSE \/ /\ trace' = Append(trace, Event("ListAgents", lkConfig[1].Agent[1].ID, <<>>, <<>>, FALSE))
               /\ Exit(1, "Failed to get agent")
               /\ UNCHANGED <<res, notifyCalls, slackPosts>>
            \/ \E agents \in ListResponses :
               LET listed == Append(trace, Event("ListAgents", lkConfig[1].Agent[1].ID, <<>>, <<>>, TRUE)) IN
               /\ res' = agents
               /\ IF Len(agents) = 0
                  THEN /\ Exit(1, "Agent not found")
                       /\ trace' = listed
                       /\ UNCHANGED <<notifyCalls, slackPosts>>
                  ELSE IF NotRunning(agents)
                  THEN /\ notifyCalls' = notifyCalls + 1
                       /\ IF SlackConfigured(environ)
                          THEN \E sent \in BOOLEAN :
                                 /\ slackPosts' = slackPosts + 1
                                 /\ trace' = Append(listed, Event("PostMessage", lkConfig[1].Agent[1].ID, <<>>, <<>>, sent))
                          ELSE /\ trace' = listed
                               /\ UNCHANGED slackPosts
                       /\ Exit(1, "Agent not running")
                  ELSE /\ trace' = listed
                       /\ UNCHANGED <<notifyCalls, slackPosts>>
                       /\ IF Len(agents[1]) = 0
                          THEN Exit(2, "panic: index out of range")
                          ELSE Exit(0, "Agent status")
    /\ UNCHANGED <<environ, operation, secrets, lkUrl, lkApiKey, lkApiSecret, client,
                   subdomain, toml, toml0, lkConfig, loaded, resp>>
    /\ UNCHANGED settingsVars
    /\ UNCHANGED <<built, procs>>

----------------------------------------------------------------------------

Next ==
    \/ Invoke
    \/ Exited
    \/ main
    \/ createAgent_Stat
    \/ createAgent_CreateAgent
    \/ createAgent_SaveTOMLFile
    \/ createAgent_UploadTarball
    \/ createAgent_Build
    \/ deployAgent_LoadTOMLFile
    \/ deployAgent_DeployAgent
    \/ deployAgent_UploadTarball
    \/ deployAgent_Build
    \/ agentStatus_LoadTOMLFile
    \/ agentStatus_ListAgents

Spec == Init /\ [][Next]_vars

----------------------------------------------------------------------------
(* config.go on its own: SaveTOMLFile and LoadTOMLFile applied to bounded   *)
(* descriptors and files                                                   *)

MaxRegions == 2

Regions    == {<<"us-east">>, <<"eu-west">>}
Subdomains == {<<"green">>, <<"old">>}

\* a []string field: nil, or a list of up to MaxRegions regions (the empty one too)
RegionLists == {<<>>} \cup {<<l>> : l \in SeqsUpTo(Regions, MaxRegions)}

\* the descriptors create and its callers can hold: a project, an agent, an id
Descriptors ==
    {LiveKitTOML(<<LiveKitTOMLProjectConfig(sub)>>, <<LiveKitTOMLAgentConfig(id, regions)>>) :
        sub \in Subdomains, id \in AgentIds, regions \in RegionLists}

\* files: any of the legacy keys, a [project] table, an [agent] table
TopLevelParts ==
    {(IF sub = <<>> THEN <<>> ELSE <<StrLine("project_subdomain", sub[1])>>)
     \o (IF regions = <<>> THEN <<>> ELSE <<ListLine("regions", regions[1])>>) :
        sub \in {<<>>} \cup {<<x>> : x \in Subdomains}, regions \in RegionLists}

ProjectParts ==
    {<<>>, <<TableLine("project")>>, <<TableLine("project"), StrLine("subdomain", <<"green">>)>>}

AgentParts ==
    {<<>>,
     <<TableLine("agent")>>,
     <<TableLine("agent"), StrLine("id", <<"CA_1">>)>>,
     <<TableLine("agent"), StrLine("id", <<"CA_2">>), ListLine("regions", <<(<<"us-east">>)>>)>>}

ConfigFiles ==
    {<<>>, << <<JunkLine>> >>}
    \cup {<<top \o project \o agent>> :
             top \in TopLevelParts, project \in ProjectParts, agent \in AgentParts}

InitConfig ==
    /\ pc = "config"
    /\ toml \in ConfigFiles
    /\ toml0 = toml
    /\ environ = <<>>
    /\ operation = <<>>
    /\ secrets = <<>>
    /\ lkUrl = <<>> /\ lkApiKey = <<>> /\ lkApiSecret = <<>>
    /\ client = FALSE
    /\ subdomain = <<>>
    /\ lkConfig = <<>>
    /\ loaded = NoReturn
    /\ resp = NoResp
    /\ res = <<>>
    /\ trace = <<>>
    /\ exitCode = -1
    /\ exitMsg = ""
    /\ notifyCalls = 0
    /\ slackPosts = 0
    /\ NoSettings
    /\ built = {}
    /\ procs = <<>>

\* c.SaveTOMLFile(dir, "livekit.toml") (config.go 261-273) for a descriptor c:
\* os.Create fails, the write fails after k lines, or the descriptor is written
SaveTOMLFile ==
    /\ pc = "config"
    /\ \E c \in Descriptors :
          /\ lkConfig' = <<c>>
          /\ \/ pc' = "save failed" /\ UNCHANGED toml
             \/ \E k \in 0..(Len(Encode(c)) - 1) :
                   pc' = "save failed" /\ toml' = Truncated(c, k)
             \/ pc' = "saved" /\ toml' = <<Encode(c)>>
    /\ UNCHANGED <<environ, operation, secrets, lkUrl, lkApiKey, lkApiSecret, client,
                   subdomain, toml0, loaded, resp, res, trace, exitCode, exitMsg,
                   notifyCalls, slackPosts>>
    /\ UNCHANGED settingsVars
    /\ UNCHANGED <<built, procs>>

\* LoadTOMLFile(dir, "livekit.toml") on the file as it is
LoadTOMLFileCall ==
    /\ pc \in {"config", "saved", "save failed"}
    /\ \E allocFirst \in BOOLEAN : loaded' = LoadTOMLFile(toml, allocFirst)
    /\ pc' = IF pc = "saved" THEN "saved, loaded" ELSE "loaded"
    /\ UNCHANGED <<environ, operation, secrets, lkUrl, lkApiKey, lkApiSecret, client,
                   subdomain, toml, toml0, lkConfig, resp, res, trace, exitCode, exitMsg,
                   notifyCalls, slackPosts>>
    /\ UNCHANGED settingsVars
    /\ UNCHANGED <<built, procs>>

NextConfig == SaveTOMLFile \/ LoadTOMLFileCall

SpecConfig == InitConfig /\ [][NextConfig]_vars

----------------------------------------------------------------------------
(* config.go: the settings file ~/.livekit/cli-config.yaml (CLIConfig,     *)
(* LoadOrCreate, RemoveProject, PersistIfNeeded)                           *)

\* projects in one CLIConfig
MaxProjects == 2

\* type ProjectConfig (config.go 42-47)
ProjectConfig(name, url, key, sec) ==
    [Name |-> name, URL |-> url, APIKey |-> key, APISecret |-> sec]

ProjectNames == {<<"staging">>, <<"prod">>}

Project(name) ==
    ProjectConfig(name, <<"wss://">> \o name \o <<".", "livekit", ".", "cloud">>,
                  <<"API">> \o name, <<"secret">> \o name)

\* type CLIConfig (config.go 34-40); Projects is <<>> (a nil slice) or <<list>>
CLIConfig(def, projects, device, persisted) ==
    [DefaultProject |-> def, Projects |-> projects, DeviceName |-> device,
     hasPersisted |-> persisted]

ProjectsOf(cfg) == IF cfg.Projects = <<>> THEN <<>> ELSE cfg.Projects[1]

\* len(c.Projects)
LenProjects(cfg) == Len(ProjectsOf(cfg))

\* a YAML document: each of the three keys is absent (<<>>) or present (<<value>>);
\* valid = FALSE is text that is no YAML
Doc(def, projects, device) ==
    [valid |-> TRUE, default_project |-> def, projects |-> projects, device_name |-> device]

JunkDoc == [valid |-> FALSE, default_project |-> <<>>, projects |-> <<>>, device_name |-> <<>>]

\* yaml.Marshal(c): the three tagged fields, a nil slice written as an empty list;
\* hasPersisted is not exported and not written
Marshal(cfg) == Doc(<<cfg.DefaultProject>>, <<ProjectsOf(cfg)>>, <<cfg.DeviceName>>)

\* yaml.Unmarshal(content, c) into c = &CLIConfig{}: a key that is absent leaves
\* the zero value, an empty list gives an empty slice
Unmarshal(doc) ==
    IF ~doc.valid THEN [err |-> "yaml: unmarshal error", cfg |-> CLIConfig(<<>>, <<>>, <<>>, FALSE)]
    ELSE [err |-> "",
          cfg |-> CLIConfig(IF doc.default_project = <<>> THEN <<>> ELSE doc.default_project[1],
                            doc.projects,
                            IF doc.device_name = <<>> THEN <<>> ELSE doc.device_name[1],
                            FALSE)]

\* what a write of doc that stops early leaves in the file
PartialDocs(doc) ==
    {Doc(<<>>, <<>>, <<>>), Doc(doc.default_project, <<>>, <<>>), JunkDoc}
    \cup {Doc(doc.default_project, <<SubSeq(doc.projects[1], 1, k)>>, <<>>) :
             k \in 0..Len(doc.projects[1])}

\* permission bits of a file, by class
Mode(owner, group, other) == [owner |-> owner, group |-> group, other |-> other]
Mode0600 == Mode({"r", "w"}, {}, {})
Mode0644 == Mode({"r", "w"}, {"r"}, {"r"})
Modes == {Mode0600, Mode0644}

\* s.Mode().Perm()&0077 != 0 (config.go 129)
BeyondOwner(mode) == mode.group # {} \/ mode.other # {}

File(content, mode) == [content |-> content, mode |-> mode]

\* lists of up to n projects with distinct names
ProjectLists(n) ==
    {l \in SeqsUpTo({Project(name) : name \in ProjectNames}, n) :
        \A i, j \in 1..Len(l) : i # j => l[i] # l[j]}

\* the settings files a home directory may hold before the first call
InitialSettings ==
    {<<>>}
    \cup {<<File(doc, mode)>> :
             doc \in {JunkDoc, Doc(<<>>, <<>>, <<>>)}
                     \cup {Doc(<<def>>, <<l>>, <<(<<"laptop">>)>>) :
                              def \in {<<>>} \cup ProjectNames, l \in ProjectLists(MaxProjects)},
             mode \in Modes}

\* the variables of the descriptor part and of main.go
processVars == <<pc, environ, operation, secrets, lkUrl, lkApiKey, lkApiSecret, client,
                 subdomain, toml, toml0, lkConfig, loaded, resp, res, trace, exitCode,
                 exitMsg, notifyCalls, slackPosts, built, procs>>

InitSettings ==
    /\ pc = "settings"
    /\ toml = <<>>
    /\ toml0 = <<>>
    /\ environ = <<>>
    /\ operation = <<>>
    /\ secrets = <<>>
    /\ lkUrl = <<>> /\ lkApiKey = <<>> /\ lkApiSecret = <<>>
    /\ client = FALSE
    /\ subdomain = <<>>
    /\ lkConfig = <<>>
    /\ loaded = NoReturn
    /\ resp = NoResp
    /\ res = <<>>
    /\ trace = <<>>
    /\ exitCode = -1
    /\ exitMsg = ""
    /\ notifyCalls = 0
    /\ slackPosts = 0
    /\ home \in BOOLEAN
    /\ settings \in InitialSettings
    /\ settings0 = settings
    /\ conf = <<>>
    /\ ret = NoRet
    /\ added = FALSE
    /\ built = {}
    /\ procs = <<>>

\* what a call returned and did; project is the *ProjectConfig returned, <<>> for nil
Returned(op, err, wrote, warned) ==
    [op |-> op, err |-> err, wrote |-> wrote, warned |-> warned, project |-> <<>>]

\* LoadOrCreate (config.go 118-147) with $HOME set or not, the settings file `file`
\* and io the I/O fault met: none, os.Stat failing otherwise than by absence, or
\* os.ReadFile failing
LoadOrCreate(h, file, io) ==
    IF ~h THEN [conf |-> <<>>, err |-> "$HOME is not defined", warned |-> FALSE]
    ELSE IF io = "stat" THEN [conf |-> <<>>, err |-> "stat: permission denied", warned |-> FALSE]
    ELSE IF file = <<>>
    THEN [conf |-> <<CLIConfig(<<>>, <<>>, <<>>, FALSE)>>, err |-> "", warned |-> FALSE]
    ELSE IF io = "read"
    THEN [conf |-> <<>>, err |-> "read: input/output error", warned |-> BeyondOwner(file[1].mode)]
    ELSE LET u == Unmarshal(file[1].content) IN
         IF u.err # ""
         THEN [conf |-> <<>>, err |-> u.err, warned |-> BeyondOwner(file[1].mode)]
         ELSE [conf |-> <<[u.cfg EXCEPT !.hasPersisted = TRUE]>>, err |-> "",
               warned |-> BeyondOwner(file[1].mode)]

LoadOrCreateCall ==
    /\ pc = "settings"
    /\ \E io \in {"none", "stat", "read"} :
          LET r == LoadOrCreate(home, settings, io) IN
          /\ conf' = r.conf
          /\ ret' = Returned("LoadOrCreate", r.err, FALSE, r.warned)
    /\ UNCHANGED <<home, settings, settings0, added>>
    /\ UNCHANGED processVars

\* the loop of config.go 56-62: the first project whose Name is the default
DefaultOf(cfg) ==
    IF cfg.DefaultProject = <<>> THEN <<>>
    ELSE LET at == {i \in 1..LenProjects(cfg) : ProjectsOf(cfg)[i].Name = cfg.DefaultProject}
         IN  IF at = {} THEN <<>>
             ELSE <<ProjectsOf(cfg)[CHOOSE i \in at : \A j \in at : i <= j]>>

\* LoadDefaultProject (config.go 49-65) over what LoadOrCreate returned
LoadDefaultProject(r) ==
    IF r.err # "" THEN [project |-> <<>>, err |-> r.err]
    ELSE IF DefaultOf(r.conf[1]) # <<>> THEN [project |-> DefaultOf(r.conf[1]), err |-> ""]
    ELSE [project |-> <<>>, err |-> "no default project set"]

\* a call of LoadDefaultProject: it loads a config of its own and leaves the one
\* in hand alone
LoadDefaultProjectCall ==
    /\ pc = "settings"
    /\ \E io \in {"none", "stat", "read"} :
          LET r == LoadOrCreate(home, settings, io)
              d == LoadDefaultProject(r)
          IN  ret' = [Returned("LoadDefaultProject", d.err, FALSE, r.warned)
                         EXCEPT !.project = d.project]
    /\ UNCHANGED <<home, settings, settings0, conf, added>>
    /\ UNCHANGED processVars

\* a config that is written whatever it holds
NeedsPersistAlways(cfg) == TRUE

\* config.go 181-184: the negation of `len(c.Projects) == 0 && !c.hasPersisted`
NeedsPersist(cfg) == ~(LenProjects(cfg) = 0 /\ ~cfg.hasPersisted)

\* os.WriteFile(configPath, data, 0600): the mode is given to a file that is
\* created (the umask can only clear bits of it); a file that exists is truncated
\* and keeps its mode
WrittenMode(file) == IF file = <<>> THEN Mode0600 ELSE file[1].mode

\* c.PersistIfNeeded() (config.go 180-204) for the config cfg, called as op:
\* nothing to do; no home directory; os.MkdirAll or the open of os.WriteFile fails;
\* the write stops early; the write succeeds
PersistIfNeeded(cfg, op) ==
    IF ~NeedsPersist(cfg)
    THEN ret' = Returned(op, "", FALSE, FALSE) /\ UNCHANGED settings
    ELSE IF ~home
    THEN ret' = Returned(op, "$HOME is not defined", FALSE, FALSE) /\ UNCHANGED settings
    ELSE \/ ret' = Returned(op, "mkdir: permission denied", FALSE, FALSE) /\ UNCHANGED settings
         \/ ret' = Returned(op, "open: permission denied", FALSE, FALSE) /\ UNCHANGED settings
         \/ \E d \in PartialDocs(Marshal(cfg)) :
               /\ settings' = <<File(d, WrittenMode(settings))>>
               /\ ret' = Returned(op, "write: no space left on device", TRUE, FALSE)
         \/ /\ settings' = <<File(Marshal(cfg), WrittenMode(settings))>>
            /\ ret' = Returned(op, "", TRUE, FALSE)

PersistIfNeededCall ==
    /\ pc = "settings"
    /\ conf # <<>>
    /\ PersistIfNeeded(conf[1], "PersistIfNeeded")
    /\ UNCHANGED <<home, settings0, conf, added>>
    /\ UNCHANGED processVars

\* the loop of config.go 159-166: a nil slice unless some project is kept
RECURSIVE Without(_, _)
Without(projects, name) ==
    IF projects = <<>> THEN <<>>
    ELSE IF Head(projects).Name = name THEN Without(Tail(projects), name)
    ELSE <<Head(projects)>> \o Without(Tail(projects), name)

\* c.RemoveProject(name) (config.go 158-178)
RemoveProject ==
    /\ pc = "settings"
    /\ conf # <<>>
    /\ \E name \in ProjectNames :
          LET newProjects == Without(ProjectsOf(conf[1]), name)
              after == [conf[1] EXCEPT
                           !.Projects = IF newProjects = <<>> THEN <<>> ELSE <<newProjects>>,
                           !.DefaultProject = IF @ = name THEN <<>> ELSE @]
          IN  /\ conf' = <<after>>
              /\ PersistIfNeeded(after, "RemoveProject")
    /\ UNCHANGED <<home, settings0, added>>
    /\ UNCHANGED processVars

\* c.ProjectExists(name) (config.go 149-156); the names here differ by more than case
ProjectExists(cfg, name) ==
    \E i \in 1..LenProjects(cfg) : ProjectsOf(cfg)[i].Name = name

\* a caller adds a project to the config in hand (the fields are exported), after
\* ProjectExists has said the name is new, and may make it the default
AddProject ==
    /\ pc = "settings"
    /\ conf # <<>>
    /\ LenProjects(conf[1]) < MaxProjects
    /\ \E name \in ProjectNames, makeDefault \in BOOLEAN :
          /\ ~ProjectExists(conf[1], name)
          /\ conf' = <<[conf[1] EXCEPT
                           !.Projects = <<Append(ProjectsOf(conf[1]), Project(name))>>,
                           !.DefaultProject = IF makeDefault THEN name ELSE @]>>
    /\ added' = TRUE
    /\ ret' = Returned("AddProject", "", FALSE, FALSE)
    /\ UNCHANGED <<home, settings, settings0>>
    /\ UNCHANGED processVars

NextSettings ==
    \/ LoadOrCreateCall
    \/ LoadDefaultProjectCall
    \/ PersistIfNeededCall
    \/ RemoveProject
    \/ AddProject

SpecSettings == InitSettings /\ [][NextSettings]_vars

----------------------------------------------------------------------------
(* createAgent (main.go 246-287) run by several invocations at once on one *)
(* working directory.  Each invocation is a process of its own with its    *)
(* own locals; they share the descriptor file and the control plane.       *)

\* invocations started together
MaxInvocations == 2

Invocations == 1..MaxInvocations

\* the URL every invocation is configured with
RaceUrl == <<"wss://", "green", ".", "livekit", ".", "cloud">>

\* the n-th agent id the control plane hands out: it never repeats one
AgentIdOf(n) == <<"CA_", n>>

\* one invocation: position in createAgent, its lkConfig and resp, its exit status
Proc(at, cfg, r, code) == [pc |-> at, lkConfig |-> cfg, resp |-> r, exitCode |-> code]

\* the agents the control plane has registered: one per CreateAgent that succeeded
Registered ==
    {procs[i].resp.AgentId : i \in {j \in DOMAIN procs : procs[j].resp.AgentId # <<>>}}

\* everything but the descriptor file and the invocations
raceFrame == <<pc, environ, operation, secrets, lkUrl, lkApiKey, lkApiSecret, client,
               subdomain, toml0, lkConfig, loaded, resp, res, trace, exitCode, exitMsg,
               notifyCalls, slackPosts, built>>

InitRace ==
    /\ pc = "race"
    /\ toml = <<>>
    /\ toml0 = <<>>
    /\ environ = <<>>
    /\ operation = <<>>
    /\ secrets = <<>>
    /\ lkUrl = <<>> /\ lkApiKey = <<>> /\ lkApiSecret = <<>>
    /\ client = FALSE
    /\ subdomain = <<>>
    /\ lkConfig = <<>>
    /\ loaded = NoReturn
    /\ resp = NoResp
    /\ res = <<>>
    /\ trace = <<>>
    /\ exitCode = -1
    /\ exitMsg = ""
    /\ notifyCalls = 0
    /\ slackPosts = 0
    /\ NoSettings
    /\ built = {}
    /\ procs = [i \in Invocations |-> Proc("create", <<>>, NoResp, -1)]

\* invocation i moves to p
Step(i, p) == procs' = [procs EXCEPT ![i] = p]

\* os.Exit(code) in invocation i
ExitOf(i, code) == Step(i, [procs[i] EXCEPT !.pc = "done", !.exitCode = code])

\* a write that leaves a descriptor alone once it records an agent
OverlayIfUnclaimed(old, lines) ==
    IF Recorded(<<old>>) # {} THEN old ELSE lines \o SubSeq(old, Len(lines) + 1, Len(old))

\* a write of lines at offset 0 of a file that holds old: what lies beyond the
\* lines written stays
Overlay(old, lines) == lines \o SubSeq(old, Len(lines) + 1, Len(old))

\* lines 247-252 in invocation i: os.Stat on the descriptor as it is now
race_Stat(i) ==
    /\ pc = "race"
    /\ procs[i].pc = "create"
    /\ IF DescriptorExists(toml)
       THEN ExitOf(i, 0)
       ELSE Step(i, [procs[i] EXCEPT
                        !.pc = "create_CreateAgent",
                        !.lkConfig = <<WithDefaultAgent(NewLiveKitTOML(Subdomain(RaceUrl)))>>])
    /\ UNCHANGED toml
    /\ UNCHANGED raceFrame
    /\ UNCHANGED settingsVars

\* lines 254-264 in invocation i: the control plane registers one more agent
race_CreateAgent(i) ==
    /\ pc = "race"
    /\ procs[i].pc = "create_CreateAgent"
    /\ \/ ExitOf(i, 1)
       \/ \E url \in PresignedUrls :
             LET id == AgentIdOf(Cardinality(Registered) + 1) IN
             Step(i, [procs[i] EXCEPT
                         !.pc = "create_SaveTOMLFile",
                         !.resp = [AgentId |-> id, PresignedUrl |-> url],
                         !.lkConfig = <<[@[1] EXCEPT !.Agent = <<[@[1] EXCEPT !.ID = id]>>]>>])
    /\ UNCHANGED toml
    /\ UNCHANGED raceFrame
    /\ UNCHANGED settingsVars

\* config.go 262-265 in invocation i: os.Create fails, or makes the file and
\* empties the one that is there
race_Create(i) ==
    /\ pc = "race"
    /\ procs[i].pc = "create_SaveTOMLFile"
    /\ \/ ExitOf(i, 1) /\ UNCHANGED toml
       \/ /\ toml' = << <<>> >>
          /\ Step(i, [procs[i] EXCEPT !.pc = "create_Encode"])
    /\ UNCHANGED raceFrame
    /\ UNCHANGED settingsVars

\* config.go 267-272 in invocation i: the encoder writes through the invocation's
\* own descriptor, from offset 0, all lines or only the first k
race_Encode(i) ==
    /\ pc = "race"
    /\ procs[i].pc = "create_Encode"
    /\ LET lines == Encode(procs[i].lkConfig[1]) IN
       \/ \E k \in 0..(Len(lines) - 1) :
             /\ toml' = <<Overlay(toml[1], SubSeq(lines, 1, k))>>
             /\ ExitOf(i, 1)
       \/ /\ toml' = <<Overlay(toml[1], lines)>>
          /\ Step(i, [procs[i] EXCEPT !.pc = "create_UploadTarball"])
    /\ UNCHANGED raceFrame
    /\ UNCHANGED settingsVars

\* lines 270-274 in invocation i
race_UploadTarball(i) ==
    /\ pc = "race"
    /\ procs[i].pc = "create_UploadTarball"
    /\ \/ ExitOf(i, 1)
       \/ Step(i, [procs[i] EXCEPT !.pc = "create_Build"])
    /\ UNCHANGED toml
    /\ UNCHANGED raceFrame
    /\ UNCHANGED settingsVars

\* lines 276-287 in invocation i
race_Build(i) ==
    /\ pc = "race"
    /\ procs[i].pc = "create_Build"
    /\ \/ ExitOf(i, 1)
       \/ ExitOf(i, 0)
    /\ UNCHANGED toml
    /\ UNCHANGED raceFrame
    /\ UNCHANGED settingsVars

NextRace ==
    \E i \in Invocations :
        \/ race_Stat(i)
        \/ race_CreateAgent(i)
        \/ race_Create(i)
        \/ race_Encode(i)
        \/ race_UploadTarball(i)
        \/ race_Build(i)

SpecRace == InitRace /\ [][NextRace]_vars



----------------------------------------------------------------------------
(* properties *)

\* main reached its switch with this operation: the client was built
Dispatched(op) == operation = op /\ client

NoRemoteCall == \A i \in 1..Len(trace) : trace[i].call \notin RemoteCalls

Running == pc \notin {"idle", "main"}

\* C1: create on a working directory that already holds a descriptor, in any
\* invocation of a sequence, makes no remote call, leaves the file as it was and
\* exits with status 0.
C1_CreateIdempotent ==
    (Dispatched(<<"create">>) /\ toml0 # <<>>) =>
        /\ NoRemoteCall
        /\ toml = toml0
        /\ pc \in {"create", "done"}
        /\ pc = "done" => exitCode = 0

\* a second create, on the descriptor an earlier create wrote
C1_Witness ==
    /\ pc = "done"
    /\ Dispatched(<<"create">>)
    /\ toml0 \notin InitialFiles
    /\ exitCode = 0
    /\ trace = <<>>

\* C2: status is unhealthy exactly when some regional deployment of some returned
\* agent is not "Running"; unhealthy means one notification and a non-zero exit,
\* healthy means no notification and exit 0.
C2_StatusVerdict ==
    (pc = "done" /\ Dispatched(<<"status">>) /\ Len(res) > 0) =>
        IF NotRunning(res)
        THEN notifyCalls = 1 /\ exitCode # 0
        ELSE notifyCalls = 0 /\ exitCode = 0

\* the three connection parameters are in neither source
ConnAbsent(env) ==
    \A name \in ConnNames :
        Getenv(env, <<"SECRET_">> \o name) = <<>> /\ Getenv(env, name) = <<>>

\* C3: with the connection parameters absent from both sources the process exits
\* non-zero, as a missing configuration, before the client is built and before
\* any remote call, whatever INPUT_OPERATION is.
C3_ConfigMissing ==
    (Running /\ ConnAbsent(environ)) =>
        /\ pc = "done"
        /\ exitCode # 0
        /\ exitMsg \in {"OPERATION is not set",
                        "LIVEKIT_URL, LIVEKIT_API_KEY, and LIVEKIT_API_SECRET must be set"}
        /\ ~client
        /\ NoRemoteCall

C3_Witness ==
    /\ pc = "done"
    /\ ConnAbsent(environ)
    /\ operation = <<"deploy">>
    /\ exitCode = 1
    /\ exitMsg = "LIVEKIT_URL, LIVEKIT_API_KEY, and LIVEKIT_API_SECRET must be set"

\* SECRET_LIST is not empty and one of its entries holds no "="
MalformedList(env) ==
    /\ Getenv(env, <<"SECRET_", "LIST">>) # <<>>
    /\ \E i \in 1..Len(Split(Getenv(env, <<"SECRET_", "LIST">>), ",")) :
          Index(Split(Getenv(env, <<"SECRET_", "LIST">>), ",")[i], "=") = 0

\* C4: a SECRET_LIST with an entry without "=", wherever the entry stands, ends the
\* process non-zero (as a malformed secret once the operation and the connection
\* parameters are there) with no remote call, so no secret is passed on.
C4_MalformedSecret ==
    (Running /\ MalformedList(environ)) =>
        /\ pc = "done"
        /\ exitCode # 0
        /\ NoRemoteCall
        /\ (operation # <<>> /\ Connection(environ).ok) => exitMsg = "Invalid secret format"

\* the entry without "=" is the last one: the entry before it was already collected
C4_Witness ==
    /\ pc = "done"
    /\ Getenv(environ, <<"SECRET_", "LIST">>) = <<"A", "=", "1", "=", "2", ",", "B">>
    /\ exitMsg = "Invalid secret format"
    /\ \E i \in 1..Len(secrets) : secrets[i].Name = <<"A">>

\* a file of the legacy shape: top-level project_subdomain and regions, no [project]
IsLegacy(file) ==
    /\ file # <<>>
    /\ ~ParseError(file[1])
    /\ \E i \in 1..Len(file[1]) : file[1][i].kind = "str" /\ file[1][i].key = "project_subdomain"
                                  /\ TableAt(file[1], i) = ""
    /\ \E i \in 1..Len(file[1]) : file[1][i].kind = "list" /\ file[1][i].key = "regions"
                                  /\ TableAt(file[1], i) = ""
    /\ \A i \in 1..Len(file[1]) : ~(file[1][i].kind = "table" /\ file[1][i].key = "project")

\* C5: LoadTOMLFile on a legacy-shaped file returns, without error and with
\* existed = true, a descriptor whose project.subdomain is the file's
\* project_subdomain and whose agent.id is empty.
C5_LegacyMigration ==
    (pc = "loaded" /\ IsLegacy(toml)) =>
        /\ loaded.err = ""
        /\ ~loaded.panic
        /\ loaded.exists
        /\ loaded.config # <<>>
        /\ loaded.config[1].Project # <<>>
        /\ \E i \in 1..Len(toml[1]) :
              /\ toml[1][i].key = "project_subdomain"
              /\ toml[1][i].sval = loaded.config[1].Project[1].Subdomain
        /\ loaded.config[1].Agent # <<>>
        /\ loaded.config[1].Agent[1].ID = <<>>

\* a legacy file that also holds an [agent] table with an id
C5_Witness ==
    /\ pc = "loaded"
    /\ IsLegacy(toml)
    /\ StrOf(toml[1], "agent", "id") = <<"CA_1">>
    /\ loaded.config[1].Project[1].Subdomain = <<"old">>

\* C6: SaveTOMLFile of a descriptor with an id, a subdomain and any region list,
\* then LoadTOMLFile, returns the descriptor that was saved, existed = true, no error.
C6_RoundTrip ==
    pc = "saved, loaded" =>
        /\ loaded.config = lkConfig
        /\ loaded.exists
        /\ loaded.err = ""
        /\ ~loaded.panic

\* the saved descriptor has an empty (not nil) region list, over another file
C6_Witness ==
    /\ pc = "saved, loaded"
    /\ lkConfig[1].Agent[1].Regions = << <<>> >>
    /\ toml0 # <<>>
    /\ loaded.config[1].Agent[1].Regions = << <<>> >>

\* C7: status-retry against a source that never reports healthy polls until the
\* timeout and ends with one notification and the failure of a timeout; it does
\* not fail before having polled.
C7_RetryPollsUntilTimeout ==
    (pc = "done" /\ Dispatched(<<"status-retry">>)) =>
        /\ \E i \in 1..Len(trace) : trace[i].call = "ListAgents"
        /\ notifyCalls = 1
        /\ exitMsg # "Invalid operation"

DocumentedOperations == Operations \cup {<<"status-retry">>}

\* C8: each of create, deploy, status and status-retry runs its operation; any
\* other INPUT_OPERATION, or none, is fatal with no remote call and the descriptor
\* file neither read nor written.
C8_Dispatch ==
    /\ (pc = "done" /\ client /\ operation \in DocumentedOperations)
            => exitMsg # "Invalid operation"
    /\ (Running /\ operation \notin DocumentedOperations)
            => /\ pc = "done"
               /\ exitCode # 0
               /\ NoRemoteCall
               /\ toml = toml0
               /\ loaded = NoReturn

CreateOrder == <<"CreateAgent", "SaveTOMLFile", "UploadTarball", "Build", "Agent created">>

\* C9: create on a directory without descriptor runs remote create, the write of
\* the descriptor with the returned id, the upload to the returned target, the
\* build for that id, the success report, in this order; a failed step is the last
\* step and the exit is then non-zero; a failed remote create leaves no file and
\* the build is only triggered after a successful upload.
C9_CreateOrder ==
    (Dispatched(<<"create">>) /\ toml0 = <<>>) =>
        /\ Len(trace) <= Len(CreateOrder)
        /\ \A i \in 1..Len(trace) : trace[i].call = CreateOrder[i]
        /\ \A i \in 1..(Len(trace) - 1) : trace[i].ok
        /\ (trace # <<>> /\ ~trace[Len(trace)].ok) => (pc = "done" /\ exitCode # 0)
        /\ (pc = "done" /\ exitCode = 0) => Len(trace) = Len(CreateOrder)
        /\ (pc = "done" /\ Len(trace) < Len(CreateOrder)) => exitCode # 0
        /\ (Len(trace) >= 1 /\ ~trace[1].ok) => toml = <<>>
        /\ toml # <<>> => Len(trace) >= 2
        /\ (Len(trace) >= 2 /\ trace[2].ok) =>
              /\ trace[2].id = resp.AgentId
              /\ toml # <<>>
              /\ DecodeLiveKitTOML(toml[1], TRUE).config[1].Agent[1].ID = resp.AgentId
        /\ Len(trace) >= 3 => trace[3].url = resp.PresignedUrl
        /\ Len(trace) >= 4 => trace[4].id = resp.AgentId

C9_Witness ==
    /\ pc = "done"
    /\ Dispatched(<<"create">>)
    /\ toml0 = <<>>
    /\ exitCode = 0
    /\ Len(trace) = 5
    /\ resp.AgentId = <<"CA_2">>

\* C10: deploy on a working directory without descriptor exits non-zero, on the
\* file not being found, without calling remote deploy, upload or build.
C10_DeployNoDescriptor ==
    (Dispatched(<<"deploy">>) /\ toml0 = <<>>) =>
        /\ NoRemoteCall
        /\ pc \in {"deploy", "done"}
        /\ pc = "done" => /\ exitCode # 0
                          /\ ~loaded.exists
                          /\ loaded.err = "stat: no such file or directory"

C10_Witness ==
    /\ pc = "done"
    /\ Dispatched(<<"deploy">>)
    /\ toml0 = <<>>
    /\ exitCode = 1
    /\ exitMsg = "Failed to load livekit.toml"

DeployOrder == <<"DeployAgent", "UploadTarball", "Build", "Agent deployed">>

\* the secrets main collects from an environment: the prefixed ones, then the list
CollectedSecrets(env) == ListSecrets(env, PrefixSecrets(env).secrets).secrets

C12_MissingFileNoError ==
    (pc = "loaded" /\ toml = <<>>) =>
        /\ ~loaded.exists
        /\ loaded.config = <<>>
        /\ loaded.err = ""

\* the agent id a load gave: empty also when nothing was loaded
ParsedId(r) ==
    IF r.config = <<>> THEN <<>>
    ELSE IF r.config[1].Agent = <<>> THEN <<>>
    ELSE r.config[1].Agent[1].ID

\* C13: whatever happens to a SaveTOMLFile, a later LoadTOMLFile reads the agent id
\* the file held before or the id that was to be saved, never another one.
C13_SaveAtomic ==
    (pc \in {"loaded", "saved, loaded"} /\ lkConfig # <<>>) =>
        ParsedId(loaded) \in {ParsedId(LoadTOMLFile(toml0, TRUE)), lkConfig[1].Agent[1].ID}

\* C14: the settings file changes only in a call on a config that has a project or
\* was loaded from an existing file; and from no settings file, with no project
\* ever added, LoadOrCreate and PersistIfNeeded leave the file absent.
C14_PersistOnlyIfNeeded ==
    /\ [][settings' # settings =>
            /\ conf' # <<>>
            /\ LenProjects(conf'[1]) > 0 \/ conf'[1].hasPersisted]_vars
    /\ []((settings0 = <<>> /\ ~added) => settings = <<>>)

\* PersistIfNeeded returned nil on a fresh, empty config and wrote nothing
C14_Witness ==
    /\ ret = Returned("PersistIfNeeded", "", FALSE, FALSE)
    /\ home
    /\ conf = <<CLIConfig(<<>>, <<>>, <<>>, FALSE)>>
    /\ settings0 = <<>>
    /\ settings = <<>>
    /\ ~added

\* C15: after a PersistIfNeeded that wrote the settings file and returned nil, the
\* file's permission bits grant nothing beyond the owner, also when the file was
\* there before with a laxer mode.
C15_OwnerOnly ==
    (ret.wrote /\ ret.err = "") =>
        /\ settings # <<>>
        /\ ~BeyondOwner(settings[1].mode)

\* a status run that found a regional deployment not running
Unhealthy == Dispatched(<<"status">>) /\ res # <<>> /\ NotRunning(res)

\* C16: an unhealthy status run ends at once with the same exit status 1 and the
\* same failure ("Agent not running") whether nothing is sent, the send fails or
\* the send succeeds; one send is attempted when both the token and the channel
\* are set, none otherwise.
C16_NotifyBestEffort ==
    Unhealthy =>
        /\ pc = "done"
        /\ exitCode = 1
        /\ exitMsg = "Agent not running"
        /\ notifyCalls = 1
        /\ slackPosts = IF Getenv(environ, <<"SLACK_TOKEN">>) = <<>>
                           \/ Getenv(environ, <<"SLACK_CHANNEL">>) = <<>>
                        THEN 0 ELSE 1
        /\ slackPosts = Cardinality({i \in 1..Len(trace) : trace[i].call = "PostMessage"})

\* the send was attempted and failed
C16_Witness ==
    /\ Unhealthy
    /\ slackPosts = 1
    /\ trace[Len(trace)].call = "PostMessage"
    /\ ~trace[Len(trace)].ok
    /\ exitCode = 1

\* the status queries of this run
Ticks == {i \in 1..Len(trace) : trace[i].call = "ListAgents"}

\* C17: a status-retry run returns success exactly on a tick whose query
\* aggregates to healthy, with no notification; while the readings are unhealthy
\* and time remains it goes on polling, so it does not end without such a tick.
C17_RetryHealthyTick ==
    (pc = "done" /\ Dispatched(<<"status-retry">>)) =>
        /\ Ticks # {}
        /\ exitCode = 0 <=> (res # <<>> /\ ~NotRunning(res))
        /\ exitCode = 0 => notifyCalls = 0

\* C18: in status-retry a failed query is one more tick of the same budget: the
\* run does not end non-zero before a query was made and the timeout has run out,
\* and it does end.
C18_RetryErrorBudget ==
    (Running /\ Dispatched(<<"status-retry">>) /\ pc = "done" /\ exitCode # 0) =>
        /\ \E i \in Ticks : ~trace[i].ok \/ NotRunning(res)
        /\ exitMsg \notin {"Invalid operation", "Failed to get agent"}

\* the environment holds the variable SECRET_LIST
HasSecretList(env) == \E i \in 1..Len(env) : HasPrefix(env[i], <<"SECRET_", "LIST", "=">>)

\* C19: with SECRET_LIST in the environment, the collected secrets hold no secret
\* named LIST and none whose value is the whole list.
C19_ListVariableExcluded ==
    (Running /\ HasSecretList(environ)) =>
        \A i \in 1..Len(secrets) :
            /\ secrets[i].Name # <<"LIST">>
            /\ Getenv(environ, <<"SECRET_", "LIST">>) # <<>>
                  => secrets[i].Value # Getenv(environ, <<"SECRET_", "LIST">>)

\* the position of the first "=" of NAME=VALUE
FirstEq(s) == CHOOSE k \in 1..Len(s) : s[k] = "=" /\ \A m \in 1..(k - 1) : s[m] # "="

\* the secret NAME=VALUE stands for: the name before the first "=", all the rest
NameValue(s) == AgentSecret(SubSeq(s, 1, FirstEq(s) - 1), SubSeq(s, FirstEq(s) + 1, Len(s)))

\* a SECRET_ variable other than SECRET_LIST itself
IsPrefixed(e) == HasPrefix(e, <<"SECRET_">>) /\ ~HasPrefix(e, <<"SECRET_", "LIST", "=">>)

\* a collected secret other than the one made of the SECRET_LIST variable
NotTheList(sec) ==
    ~(sec.Name = <<"LIST">> /\ sec.Value = Getenv(environ, <<"SECRET_", "LIST">>))

\* the secrets an environment stands for: its SECRET_ variables in their order,
\* then the entries of SECRET_LIST in theirs
ExpectedSecrets(env) ==
    LET prefixed == SelectSeq(env, IsPrefixed)
        list     == IF Getenv(env, <<"SECRET_", "LIST">>) = <<>> THEN <<>>
                    ELSE Split(Getenv(env, <<"SECRET_", "LIST">>), ",")
    IN  [i \in 1..Len(prefixed) |-> NameValue(Tail(prefixed[i]))]
        \o [i \in 1..Len(list) |-> NameValue(list[i])]

\* the collector went through: no exit before NewAgentClient
Collected ==
    /\ Running
    /\ exitMsg \notin {"OPERATION is not set",
                       "LIVEKIT_URL, LIVEKIT_API_KEY, and LIVEKIT_API_SECRET must be set",
                       "Invalid secret format"}

\* C20: every SECRET_<name>=<value> variable and every entry <name>=<value> of a
\* well-formed SECRET_LIST is collected under that name with all that follows the
\* first "=" as its value, further "=" included.
C20_ValueAfterFirstEq ==
    Collected => SelectSeq(secrets, NotTheList) = ExpectedSecrets(environ)

\* values holding "=" from both sources reached remote deploy whole
C20_Witness ==
    /\ pc = "done"
    /\ Dispatched(<<"deploy">>)
    /\ trace # <<>>
    /\ trace[1].call = "DeployAgent"
    /\ \E i, j \in 1..Len(trace[1].secrets) :
          /\ trace[1].secrets[i] = AgentSecret(<<"AUTH_TOKEN">>, <<"a", "=", "b">>)
          /\ trace[1].secrets[j] = AgentSecret(<<"A">>, <<"1", "=", "2">>)

\* the connection variable main holds for a reserved name
ConnVar(name) ==
    IF name = <<"LIVEKIT_URL">> THEN lkUrl
    ELSE IF name = <<"LIVEKIT_API_KEY">> THEN lkApiKey ELSE lkApiSecret

\* each of the three connection parameters is in one source or the other
ConnSupplied(env) ==
    \A name \in ConnNames :
        Getenv(env, <<"SECRET_">> \o name) # <<>> \/ Getenv(env, name) # <<>>

\* C21: a connection parameter given as a SECRET_ variable is the value the client
\* is built with and is also one of the collected secrets; the plain variables are
\* read only when none of the three came with the prefix.
C21_PrefixedConnectionKept ==
    (Running /\ operation # <<>> /\ ConnSupplied(environ)) =>
        /\ exitMsg # "LIVEKIT_URL, LIVEKIT_API_KEY, and LIVEKIT_API_SECRET must be set"
        /\ \A name \in ConnNames :
              LET given == Getenv(environ, <<"SECRET_">> \o name) IN
              given # <<>> =>
                  /\ ConnVar(name) = given
                  /\ \E i \in 1..Len(secrets) : secrets[i] = AgentSecret(name, given)

\* C22: the project.subdomain create writes is the label between the scheme and the
\* first "." of the control-plane URL, what ExtractSubdomain returns for that URL.
C22_SubdomainWithoutScheme ==
    (Dispatched(<<"create">>) /\ toml0 = <<>> /\ Len(trace) >= 2 /\ trace[2].ok) =>
        /\ toml # <<>>
        /\ StrOf(toml[1], "project", "subdomain") = ExtractSubdomain(lkUrl)
        /\ StrOf(toml[1], "project", "subdomain")[1] \notin Schemes

\* the elements of a slice, a nil one having none
Elements(slice) == IF slice = <<>> THEN <<>> ELSE slice[1]

\* C23: a legacy-shaped file is migrated from both of its fields: agent.regions is
\* the legacy regions list and project.subdomain is project_subdomain; the load
\* leaves the file as it is.
C23_MigrationKeepsRegions ==
    (pc = "loaded" /\ lkConfig = <<>> /\ IsLegacy(toml)) =>
        /\ toml = toml0
        /\ loaded.config # <<>>
        /\ loaded.config[1].Project[1].Subdomain = StrOf(toml[1], "", "project_subdomain")
        /\ Elements(loaded.config[1].Agent[1].Regions) = Elements(ListOf(toml[1], "", "regions"))

\* a file that parses and holds an [agent] table with a non-empty id
RecordsAgent(file) ==
    /\ file # <<>>
    /\ ~ParseError(file[1])
    /\ HasTable(file[1], "agent")
    /\ StrOf(file[1], "agent", "id") # <<>>

\* C30: LoadTOMLFile returns the agent id the file records, with or without a
\* [project] table in the file.
C30_AgentIdKept ==
    (pc \in {"loaded", "saved, loaded"} /\ RecordsAgent(toml)) =>
        ParsedId(loaded) = StrOf(toml[1], "agent", "id")

\* C25: in every run of deploy, status or status-retry, at every step and after it,
\* the descriptor file is what it was when the run started, a legacy-shaped file too.
C25_DescriptorReadOnly ==
    (Running /\ operation \in {<<"deploy">>, <<"status">>, <<"status-retry">>}) =>
        toml = toml0

\* a deploy that went through on a legacy-shaped descriptor
C25_Witness ==
    /\ pc = "done"
    /\ Dispatched(<<"deploy">>)
    /\ exitCode = 0
    /\ IsLegacy(toml0)
    /\ toml = toml0
    /\ loaded.config[1].Project[1].Subdomain = <<"old">>

\* C27: status and deploy end with exit 0 or with a logged failure and exit 1,
\* never by a crash, whatever the descriptor file holds and the control plane answers.
C27_NoCrash ==
    (pc = "done" /\ operation \in {<<"deploy">>, <<"status">>}) => exitCode \in {0, 1}

\* C26: a create invocation exits with status 0 only if upload and build have
\* completed, in this invocation or an earlier one, for the agent id the
\* descriptor records.
C26_SuccessMeansBuilt ==
    (pc = "done" /\ Dispatched(<<"create">>) /\ exitCode = 0) =>
        Recorded(toml) \subseteq built

\* C26 as amended: a create invocation exits with status 0 only if the descriptor
\* was there when it started (it then calls nothing and leaves the file) or if
\* upload and build have completed in this invocation for the id it recorded.
C26_SuccessMeansBuiltOrExisted ==
    (pc = "done" /\ Dispatched(<<"create">>) /\ exitCode = 0) =>
        \/ /\ toml0 # <<>>
           /\ NoRemoteCall
           /\ toml = toml0
        \/ /\ toml0 = <<>>
           /\ Recorded(toml) = {resp.AgentId}
           /\ resp.AgentId \in built
           /\ Len(trace) = Len(CreateOrder)
           /\ \A i \in 1..Len(trace) : trace[i].ok

\* a create that reports success on the descriptor an earlier create left behind
\* when its upload or build failed
C26_Witness ==
    /\ pc = "done"
    /\ Dispatched(<<"create">>)
    /\ exitCode = 0
    /\ toml0 \notin InitialFiles
    /\ Recorded(toml) # {}
    /\ Recorded(toml) \cap built = {}

\* the settings file, where there is one, lists exactly the projects of cfg
ListsProjects(file, cfg) ==
    file # <<>> =>
        /\ file[1].content.valid
        /\ file[1].content.projects = <<ProjectsOf(cfg)>>

\* C28: a RemoveProject or PersistIfNeeded that returns nil, after a call that
\* returned nil as well, leaves a settings file that lists exactly the projects the
\* config holds in memory; in particular when the file had been written from that
\* config before and its last project goes.
C28_FileListsProjects ==
    [][(/\ ret'.op \in {"RemoveProject", "PersistIfNeeded"}
        /\ ret'.err = ""
        /\ ret.err = ""
        /\ ListsProjects(settings, conf[1])) =>
           ListsProjects(settings', conf'[1])]_vars

\* DefaultProject is empty or names a project of the list
ValidDefault(cfg) == cfg.DefaultProject = <<>> \/ ProjectExists(cfg, cfg.DefaultProject)

\* the errors LoadOrCreate passes on
LoadErrors ==
    {"$HOME is not defined", "stat: permission denied", "read: input/output error",
     "yaml: unmarshal error"}

\* C29: a RemoveProject on a config whose DefaultProject is empty or names one of
\* its projects leaves it so, clearing it exactly when the project it names goes;
\* and a LoadDefaultProject that follows a RemoveProject that returned nil returns
\* the project the config names as default, or "no default project set" when it
\* names none.
C29_DefaultProjectKept ==
    [][/\ (ret'.op = "RemoveProject" /\ conf' # conf /\ conf # <<>> /\ ValidDefault(conf[1])) =>
              /\ ValidDefault(conf'[1])
              /\ conf'[1].DefaultProject =
                     IF ProjectExists(conf'[1], conf[1].DefaultProject)
                     THEN conf[1].DefaultProject ELSE <<>>
       /\ (/\ ret.op = "RemoveProject" /\ ret.err = ""
           /\ ValidDefault(conf[1])
           /\ ret'.op = "LoadDefaultProject" /\ ret'.err \notin LoadErrors) =>
              /\ ret'.project = DefaultOf(conf[1])
              /\ ret'.err = IF DefaultOf(conf[1]) = <<>> THEN "no default project set" ELSE ""
      ]_vars

\* invocation i has passed the existence check and had an agent registered
PassedAndRegistered(i) == procs[i].resp.AgentId # <<>>

\* C24: concurrent create invocations are not serialized.  An invocation passes
\* the existence check whenever no descriptor is on disk at that moment, wherever
\* the other invocations are; a complete write of the descriptor replaces what
\* another invocation wrote, so that it records the writer's id alone, whatever
\* agents the others had registered.
C24_CreatesNotSerialized ==
    [][\A i \in Invocations :
          /\ (procs[i].pc = "create" /\ procs'[i].pc # "create" /\ toml = <<>>) =>
                 procs'[i].pc = "create_CreateAgent"
          /\ (procs[i].pc = "create_Encode" /\ procs'[i].pc = "create_UploadTarball") =>
                 Recorded(toml') = {procs[i].resp.AgentId}]_vars

\* every invocation is over; two of them passed the check and had an agent
\* registered each; the descriptor left on disk records one of the two ids
C24_Witness ==
    /\ pc = "race"
    /\ \A i \in Invocations : procs[i].pc = "done"
    /\ \E i, j \in Invocations :
          /\ i # j
          /\ PassedAndRegistered(i) /\ PassedAndRegistered(j)
          /\ procs[i].resp.AgentId # procs[j].resp.AgentId
          /\ Recorded(toml) = {procs[i].resp.AgentId}
    /\ Cardinality(Registered) >= 2

====
